---- MODULE Spec2Model ----
(***************************************************************************)
(* Model of src/cyber.py: a linear pipeline that fetches a device's        *)
(* running configuration over SSH (get_running_config), loads a hardening  *)
(* policy file (load_hardening_guidelines), reports the policy lines that  *)
(* are missing from the configuration (check_compliance) and then pushes a *)
(* fixed command list over an interactive shell (configure_syslog).        *)
(*                                                                         *)
(* A text is a sequence of one-character strings; a line is a text without *)
(* a newline.  Every remote-channel call and the policy-file read either   *)
(* returns or raises; which of the two is chosen nondeterministically.     *)
(***************************************************************************)
EXTENDS Integers, Sequences, FiniteSets, TLC

VARIABLES
    pc,              \* position of the single thread of control
    running_config,  \* main: result of get_running_config
    guidelines,      \* main: result of load_hardening_guidelines
    config,          \* get_running_config: local `config`
    non_compliant,   \* check_compliance: local `non_compliant`
    fetch_ssh,       \* get_running_config: state of its SSHClient session
    enf_ssh,         \* configure_syslog: state of its SSHClient session
    shell,           \* configure_syslog: state of the interactive shell
    idx,             \* configure_syslog: position of the for loop in `commands`
    chan,            \* what the Enforcer did on its channel, in order
    stdout,          \* what was printed, in order
    calls            \* call/return history of the four components

vars == <<pc, running_config, guidelines, config, non_compliant, fetch_ssh,
          enf_ssh, shell, idx, chan, stdout, calls>>

----------------------------------------------------------------------------
(* Bounds of the model. *)

\* longest raw text (device output, policy file) in characters
MaxText == 3

\* longest configuration / policy handed to check_compliance on its own
MaxLines == 3

NL == "\n"

CR == "\r"

\* characters of the raw texts
Alphabet == {"x", "y", NL, CR}

\* lines handed to check_compliance on its own: "line A", "line B",
\* "line C" of the end-to-end scenario, and the empty line
CompareLines == {<<"A">>, <<"B">>, <<"C">>, <<>>}

SeqsUpTo(S, n) == UNION {[1..k -> S] : k \in 0..n}

Texts == SeqsUpTo(Alphabet, MaxText)

LineSeqs == SeqsUpTo(CompareLines, MaxLines)

----------------------------------------------------------------------------
(* Values. *)

\* Python's None
None == [present |-> FALSE, lines |-> <<>>]

\* a list of lines
Some(ls) == [present |-> TRUE, lines |-> ls]

\* Python truth value of `None` or a list: None and [] are false
Truthy(v) == v.present /\ Len(v.lines) > 0

\* str.splitlines(): cut at every line boundary ("\n", "\r", and "\r\n" as
\* one boundary); a trailing boundary opens no line
RECURSIVE SplitFrom(_, _, _)
SplitFrom(s, cur, acc) ==
    IF s = <<>> THEN (IF cur = <<>> THEN acc ELSE Append(acc, cur))
    ELSE IF Head(s) = CR /\ Len(s) > 1 /\ s[2] = NL
         THEN SplitFrom(Tail(Tail(s)), <<>>, Append(acc, cur))
    ELSE IF Head(s) \in {NL, CR}
         THEN SplitFrom(Tail(s), <<>>, Append(acc, cur))
    ELSE SplitFrom(Tail(s), Append(cur, Head(s)), acc)

splitlines(s) == SplitFrom(s, <<>>, <<>>)

\* faulty variant: compares the policy line with the first configuration line only
ListContainsFirstOnly(l, g) == l /= <<>> /\ Head(l) = g

\* `g in running_config`: linear scan with whole-line equality
RECURSIVE ListContains(_, _)
ListContains(l, g) ==
    IF l = <<>> THEN FALSE
    ELSE IF Head(l) = g THEN TRUE
    ELSE ListContains(Tail(l), g)

\* [g for g in guidelines if g not in running_config]
RECURSIVE NonCompliant(_, _)
NonCompliant(rc, gl) ==
    IF gl = <<>> THEN <<>>
    ELSE IF ListContains(rc, Head(gl)) THEN NonCompliant(rc, Tail(gl))
    ELSE <<Head(gl)>> \o NonCompliant(rc, Tail(gl))

\* "\n".join(items)
RECURSIVE JoinLines(_)
JoinLines(items) ==
    IF items = <<>> THEN <<>>
    ELSE IF Len(items) = 1 THEN Head(items)
    ELSE Head(items) \o <<NL>> \o JoinLines(Tail(items))

\* f"- {item}"
Entry(item) == <<"-", " ">> \o item

\* f"- {item}" for item in non_compliant
Entries(items) == [k \in 1..Len(items) |-> Entry(items[k])]

\* one print call
Line(tag, body) == [tag |-> tag, body |-> body]

\* faulty variant: prints the compliant message after the list as well
ReportAlsoCompliant(nc) ==
    IF nc /= <<>>
    THEN << Line("noncompliant_header", <<>>),
            Line("noncompliant_list", JoinLines(Entries(nc))),
            Line("compliant", <<>>) >>
    ELSE << Line("compliant", <<>>) >>

\* the two prints of check_compliance
Report(nc) ==
    IF nc /= <<>>
    THEN << Line("noncompliant_header", <<>>),
            Line("noncompliant_list", JoinLines(Entries(nc))) >>
    ELSE << Line("compliant", <<>>) >>

\* the fixed command list of configure_syslog
commands ==
    << "configure terminal", "logging host 192.168.1.100",
       "logging trap informational", "end", "write memory" >>


\* calls lexically inside the try block of get_running_config
FetchTry == {"connect", "exec_command", "read", "close"}

\* calls lexically inside the try block of load_hardening_guidelines
LoadTry == {"open"}

\* faulty variant: ssh.close() placed after the try block
EnfTryWithoutClose == {"connect", "invoke_shell", "send", "recv"}

\* calls lexically inside the try block of configure_syslog
EnfTry == {"connect", "invoke_shell", "send", "recv", "close"}

\* an entry of the call/return history
Ev(kind, fn) == [ev |-> kind, fn |-> fn]

\* an operation of the Enforcer on its channel
Op(name, arg) == [op |-> name, arg |-> arg]

----------------------------------------------------------------------------
(* The state at the start of main. *)

Start ==
    /\ running_config = None
    /\ guidelines = None
    /\ config = <<>>
    /\ non_compliant = <<>>
    /\ fetch_ssh = "none"
    /\ enf_ssh = "none"
    /\ shell = "none"
    /\ idx = 0
    /\ chan = <<>>
    /\ stdout = <<>>
    /\ calls = <<>>

Init == pc = "fetch_connect" /\ Start

----------------------------------------------------------------------------
(* get_running_config *)

\* an exception raised by `op`, leaving the session in state `s`
FetchRaise(op, s) ==
    /\ fetch_ssh' = s
    /\ IF op \in FetchTry
       THEN /\ stdout' = Append(stdout, Line("err_fetch", <<>>))
            /\ running_config' = None
            /\ calls' = Append(calls, Ev("ret", "get_running_config"))
            /\ pc' = "load"
       ELSE /\ pc' = "crashed"
            /\ UNCHANGED <<stdout, running_config, calls>>

FetchConnect ==
    /\ pc = "fetch_connect"
    /\ \E ok \in BOOLEAN :
         IF ok
         THEN /\ fetch_ssh' = "open"
              /\ calls' = Append(calls, Ev("call", "get_running_config"))
              /\ pc' = "fetch_exec"
              /\ UNCHANGED <<stdout, running_config>>
         ELSE /\ fetch_ssh' = "disconnected"
              /\ IF "connect" \in FetchTry
                 THEN /\ stdout' = Append(stdout, Line("err_fetch", <<>>))
                      /\ running_config' = None
                      /\ calls' = calls \o << Ev("call", "get_running_config"),
                                              Ev("ret", "get_running_config") >>
                      /\ pc' = "load"
                 ELSE /\ pc' = "crashed"
                      /\ calls' = Append(calls, Ev("call", "get_running_config"))
                      /\ UNCHANGED <<stdout, running_config>>
    /\ UNCHANGED <<guidelines, config, non_compliant, enf_ssh, shell, idx, chan>>

FetchExec ==
    /\ pc = "fetch_exec"
    /\ \E ok \in BOOLEAN :
         IF ok
         THEN /\ pc' = "fetch_read"
              /\ UNCHANGED <<fetch_ssh, stdout, running_config, calls>>
         ELSE FetchRaise("exec_command", fetch_ssh)
    /\ UNCHANGED <<guidelines, config, non_compliant, enf_ssh, shell, idx, chan>>

FetchRead ==
    /\ pc = "fetch_read"
    /\ \/ \E text \in Texts :
            /\ config' = splitlines(text)
            /\ pc' = "fetch_close"
            /\ UNCHANGED <<fetch_ssh, stdout, running_config, calls>>
       \/ /\ FetchRaise("read", fetch_ssh)
          /\ UNCHANGED config
    /\ UNCHANGED <<guidelines, non_compliant, enf_ssh, shell, idx, chan>>

FetchClose ==
    /\ pc = "fetch_close"
    /\ \/ /\ fetch_ssh' = "closed"
          /\ running_config' = Some(config)
          /\ calls' = Append(calls, Ev("ret", "get_running_config"))
          /\ pc' = "load"
          /\ UNCHANGED stdout
       \/ \E s \in {"open", "closed"} : FetchRaise("close", s)
    /\ UNCHANGED <<guidelines, config, non_compliant, enf_ssh, shell, idx, chan>>

----------------------------------------------------------------------------
(* load_hardening_guidelines *)

Load ==
    /\ pc = "load"
    /\ \/ \E text \in Texts :
            /\ guidelines' = Some(splitlines(text))
            /\ calls' = calls \o << Ev("call", "load_hardening_guidelines"),
                                    Ev("ret", "load_hardening_guidelines") >>
            /\ pc' = "main_check"
            /\ UNCHANGED stdout
       \/ IF "open" \in LoadTry
          THEN /\ guidelines' = None
               /\ stdout' = Append(stdout, Line("err_load", <<>>))
               /\ calls' = calls \o << Ev("call", "load_hardening_guidelines"),
                                       Ev("ret", "load_hardening_guidelines") >>
               /\ pc' = "main_check"
          ELSE /\ pc' = "crashed"
               /\ calls' = Append(calls, Ev("call", "load_hardening_guidelines"))
               /\ UNCHANGED <<guidelines, stdout>>
    /\ UNCHANGED <<running_config, config, non_compliant, fetch_ssh, enf_ssh,
                   shell, idx, chan>>

----------------------------------------------------------------------------
(* main, steps 3 and 4 *)

\* faulty variant: `running_config or guidelines`
MainGuardOr(rc, gl) == Truthy(rc) \/ Truthy(gl)

\* `if running_config and guidelines:`
MainGuard(rc, gl) == Truthy(rc) /\ Truthy(gl)

\* faulty variant: step 4 indented into the `if` of step 3
MainCheckEnforceInsideIf ==
    /\ pc = "main_check"
    /\ IF MainGuard(running_config, guidelines)
       THEN /\ non_compliant' = NonCompliant(running_config.lines, guidelines.lines)
            /\ stdout' = stdout \o << Line("checking", <<>>) >>
                                \o Report(non_compliant')
            /\ calls' = calls \o << Ev("call", "check_compliance"),
                                    Ev("ret", "check_compliance") >>
            /\ pc' = "main_enforce"
       ELSE /\ pc' = "done"
            /\ UNCHANGED <<non_compliant, stdout, calls>>
    /\ UNCHANGED <<running_config, guidelines, config, fetch_ssh, enf_ssh,
                   shell, idx, chan>>

\* step 3: the guarded call of check_compliance; step 4 follows either way
MainCheck ==
    /\ pc = "main_check"
    /\ IF MainGuard(running_config, guidelines)
       THEN /\ non_compliant' = NonCompliant(running_config.lines, guidelines.lines)
            /\ stdout' = stdout \o << Line("checking", <<>>) >>
                                \o Report(non_compliant')
            /\ calls' = calls \o << Ev("call", "check_compliance"),
                                    Ev("ret", "check_compliance") >>
            /\ pc' = "main_enforce"
       ELSE /\ pc' = "main_enforce"
            /\ UNCHANGED <<non_compliant, stdout, calls>>
    /\ UNCHANGED <<running_config, guidelines, config, fetch_ssh, enf_ssh,
                   shell, idx, chan>>

MainEnforce ==
    /\ pc = "main_enforce"
    /\ stdout' = Append(stdout, Line("configuring", <<>>))
    /\ calls' = Append(calls, Ev("call", "configure_syslog"))
    /\ pc' = "enf_connect"
    /\ UNCHANGED <<running_config, guidelines, config, non_compliant, fetch_ssh,
                   enf_ssh, shell, idx, chan>>

(* configure_syslog *)

\* an exception raised by `op`, leaving the session in state `s`
EnfRaise(op, s) ==
    /\ enf_ssh' = s
    /\ IF op \in EnfTry
       THEN /\ stdout' = Append(stdout, Line("err_syslog", <<>>))
            /\ calls' = Append(calls, Ev("ret", "configure_syslog"))
            /\ pc' = "done"
       ELSE /\ pc' = "crashed"
            /\ UNCHANGED <<stdout, calls>>

EnfConnect ==
    /\ pc = "enf_connect"
    /\ \/ /\ enf_ssh' = "open"
          /\ pc' = "enf_shell"
          /\ UNCHANGED <<stdout, calls>>
       \/ EnfRaise("connect", "disconnected")
    /\ UNCHANGED <<running_config, guidelines, config, non_compliant, fetch_ssh,
                   shell, idx, chan>>

EnfShell ==
    /\ pc = "enf_shell"
    /\ \/ /\ shell' = "active"
          /\ idx' = 1
          /\ pc' = "enf_send"
          /\ UNCHANGED <<enf_ssh, stdout, calls>>
       \/ /\ EnfRaise("invoke_shell", enf_ssh)
          /\ UNCHANGED <<shell, idx>>
    /\ UNCHANGED <<running_config, guidelines, config, non_compliant, fetch_ssh,
                   chan>>

\* faulty variant: the loop sends the next command without the settling wait
EnfSendNoSleep ==
    /\ pc = "enf_send"
    /\ \/ /\ chan' = Append(chan, Op("send", commands[idx]))
          /\ idx' = idx + 1
          /\ pc' = IF idx = Len(commands) THEN "enf_recv" ELSE "enf_send"
          /\ UNCHANGED <<enf_ssh, stdout, calls>>
       \/ /\ EnfRaise("send", enf_ssh)
          /\ UNCHANGED <<chan, idx>>
    /\ UNCHANGED <<running_config, guidelines, config, non_compliant, fetch_ssh,
                   shell>>

\* shell.send(cmd + "\n") for the current command of the loop
EnfSend ==
    /\ pc = "enf_send"
    /\ \/ /\ chan' = Append(chan, Op("send", commands[idx]))
          /\ pc' = "enf_sleep"
          /\ UNCHANGED <<enf_ssh, idx, stdout, calls>>
       \/ /\ EnfRaise("send", enf_ssh)
          /\ UNCHANGED <<chan, idx>>
    /\ UNCHANGED <<running_config, guidelines, config, non_compliant, fetch_ssh,
                   shell>>

\* time.sleep(1), then the next command or the end of the loop
EnfSleep ==
    /\ pc = "enf_sleep"
    /\ chan' = Append(chan, Op("sleep", ""))
    /\ idx' = idx + 1
    /\ pc' = IF idx = Len(commands) THEN "enf_recv" ELSE "enf_send"
    /\ UNCHANGED <<running_config, guidelines, config, non_compliant, fetch_ssh,
                   enf_ssh, shell, stdout, calls>>

\* shell.recv(1000), then the success line
EnfRecv ==
    /\ pc = "enf_recv"
    /\ \/ /\ chan' = Append(chan, Op("recv", ""))
          /\ stdout' = Append(stdout, Line("syslog_ok", <<>>))
          /\ pc' = "enf_close"
          /\ UNCHANGED <<enf_ssh, calls>>
       \/ /\ EnfRaise("recv", enf_ssh)
          /\ UNCHANGED chan
    /\ UNCHANGED <<running_config, guidelines, config, non_compliant, fetch_ssh,
                   shell, idx>>

\* ssh.close(); a close that raises may or may not have released the session
EnfClose ==
    /\ pc = "enf_close"
    /\ \/ /\ enf_ssh' = "closed"
          /\ shell' = "closed"
          /\ chan' = Append(chan, Op("close", ""))
          /\ calls' = Append(calls, Ev("ret", "configure_syslog"))
          /\ pc' = "done"
          /\ UNCHANGED stdout
       \/ /\ \E s \in {"open", "closed"} : EnfRaise("close", s)
          /\ UNCHANGED <<shell, chan>>
    /\ UNCHANGED <<running_config, guidelines, config, non_compliant, fetch_ssh,
                   idx>>

----------------------------------------------------------------------------
(* The program. *)

Next ==
    \/ FetchConnect
    \/ FetchExec
    \/ FetchRead
    \/ FetchClose
    \/ Load
    \/ MainCheck
    \/ MainEnforce
    \/ EnfConnect
    \/ EnfShell
    \/ EnfSend
    \/ EnfSleep
    \/ EnfRecv
    \/ EnfClose

Spec == Init /\ [][Next]_vars

\* every call of the single thread returns or raises, so the thread always
\* takes its next step
FairSpec == Init /\ [][Next]_vars /\ WF_vars(Next)

----------------------------------------------------------------------------
(* check_compliance on its own, on every bounded configuration and policy. *)

InitCompare ==
    /\ pc = "cmp_call"
    /\ running_config \in {Some(l) : l \in LineSeqs}
    /\ guidelines \in {Some(l) : l \in LineSeqs}
    /\ config = <<>>
    /\ non_compliant = <<>>
    /\ fetch_ssh = "none"
    /\ enf_ssh = "none"
    /\ shell = "none"
    /\ idx = 0
    /\ chan = <<>>
    /\ stdout = <<>>
    /\ calls = <<>>

CompareCall ==
    /\ pc = "cmp_call"
    /\ non_compliant' = NonCompliant(running_config.lines, guidelines.lines)
    /\ stdout' = stdout \o Report(non_compliant')
    /\ calls' = calls \o << Ev("call", "check_compliance"),
                            Ev("ret", "check_compliance") >>
    /\ pc' = "cmp_done"
    /\ UNCHANGED <<running_config, guidelines, config, fetch_ssh, enf_ssh,
                   shell, idx, chan>>

NextCompare == CompareCall

SpecCompare == InitCompare /\ [][NextCompare]_vars

----------------------------------------------------------------------------
(* Vocabulary of the properties. *)

\* l has an element equal to x
Occurs(l, x) == \E j \in 1..Len(l) : l[j] = x

\* positions of the policy lines that equal no configuration line
Missing(C, P) == {i \in 1..Len(P) : \A j \in 1..Len(C) : C[j] /= P[i]}

\* r[k] is the k-th element of P, in P's order, among the positions M
IsSelection(r, P, M) ==
    /\ Len(r) = Cardinality(M)
    /\ \A i \in M : r[Cardinality({m \in M : m <= i})] = P[i]

\* how many elements of l satisfy Test
Count(l, Test(_)) == Cardinality({k \in 1..Len(l) : Test(l[k])})

Called(fn) == Occurs(calls, Ev("call", fn))

Returned(fn) == Occurs(calls, Ev("ret", fn))

Printed(tag) == \E k \in 1..Len(stdout) : stdout[k].tag = tag

IsStatus(l) == l.tag \in {"syslog_ok", "err_syslog"}

IsEnforcerCall(e) == e = Ev("call", "configure_syslog")

\* positions of chan holding the operation `name`
At(name) == {k \in 1..Len(chan) : chan[k].op = name}

\* the commands transmitted so far, in order
Sent == [k \in 1..Cardinality(At("send")) |->
            chan[CHOOSE i \in At("send") :
                    Cardinality({m \in At("send") : m <= i}) = k].arg]

\* the command sequence the Enforcer is documented to transmit
FixedSequence ==
    << "configure terminal", "logging host 192.168.1.100",
       "logging trap informational", "end", "write memory" >>

\* main is past its step 3
PastCheck ==
    pc \in {"main_enforce", "enf_connect", "enf_shell", "enf_send", "enf_sleep",
            "enf_recv", "enf_close", "done"}

----------------------------------------------------------------------------
(* C1: check_compliance computes exactly the lines of the policy P that    *)
(* equal no line of the configuration C, in P's order and with P's         *)
(* multiplicities; the result is empty when P is empty and when every line *)
(* of P occurs in C, whatever the order or duplication of lines in C.      *)
C1_ExactMissingLines ==
    pc = "cmp_done" =>
        LET C == running_config.lines
            P == guidelines.lines
        IN  /\ IsSelection(non_compliant, P, Missing(C, P))
            /\ P = <<>> => non_compliant = <<>>
            /\ (\A i \in 1..Len(P) : Occurs(C, P[i])) => non_compliant = <<>>

\* a duplicated configuration line, a policy with a present line and a
\* missing line: the missing line alone is returned
C1_Witness ==
    /\ pc = "cmp_done"
    /\ running_config.lines = << <<"A">>, <<"A">> >>
    /\ guidelines.lines = << <<"A">>, <<"C">> >>
    /\ non_compliant = << <<"C">> >>

(* C2: check_compliance is never invoked when the fetch or the load        *)
(* yielded None: a failed fetch or a failed load skips the compliance      *)
(* check.                                                                  *)
C2_NoCheckOnAbsent ==
    /\ Called("check_compliance") => running_config.present /\ guidelines.present
    /\ (Printed("err_fetch") \/ Printed("err_load")) => ~Called("check_compliance")

\* the fetch failed, the load gave a non-empty policy, main went past step 3
C2_Witness ==
    /\ pc = "done"
    /\ Printed("err_fetch")
    /\ ~running_config.present
    /\ Truthy(guidelines)
    /\ ~Called("check_compliance")

(* C4: no error terminates the process: whatever combination of channel    *)
(* and file operations fails, the failure is caught by the operation's own *)
(* handler, the component returns to main and main runs to its end.        *)
C4_RunsToEnd ==
    /\ [](pc /= "crashed")
    /\ [](pc = "done" => /\ Returned("get_running_config")
                         /\ Returned("load_hardening_guidelines")
                         /\ Returned("configure_syslog"))
    /\ [](pc = "done" => /\ ~running_config.present => Printed("err_fetch")
                         /\ ~guidelines.present => Printed("err_load")
                         /\ At("close") = {} => Printed("err_syslog"))
    /\ <>(pc = "done")

\* all three components failed, the last one in close, and main ended
C4_Witness ==
    /\ pc = "done"
    /\ Printed("err_fetch")
    /\ Printed("err_load")
    /\ Printed("syslog_ok")
    /\ Printed("err_syslog")

(* C5: configure_syslog is invoked exactly once in every run, after the    *)
(* Fetcher and the Loader have returned and after check_compliance has     *)
(* returned if it ran, whatever failed before; when the Loader yields      *)
(* None, the Enforcer is called without check_compliance having run.       *)
C5_EnforcerOnceAfterAll ==
    LET E == {k \in 1..Len(calls) : IsEnforcerCall(calls[k])}
    IN  /\ Cardinality(E) <= 1
        /\ pc = "done" => Cardinality(E) = 1
        /\ \A k \in E :
             /\ \E j \in 1..(k - 1) : calls[j] = Ev("ret", "get_running_config")
             /\ \E j \in 1..(k - 1) : calls[j] = Ev("ret", "load_hardening_guidelines")
             /\ \A j \in 1..Len(calls) :
                  calls[j].fn /= "configure_syslog" => j < k
             /\ ~guidelines.present => ~Called("check_compliance")

\* the load failed and the Enforcer was still called
C5_Witness ==
    /\ Called("configure_syslog")
    /\ Printed("err_load")
    /\ ~guidelines.present
    /\ Truthy(running_config)
    /\ ~Called("check_compliance")

(* C6: the commands transmitted form a prefix of the fixed sequence, each  *)
(* sent at most once and in order; a settling wait completes between any   *)
(* two consecutive sends; the drain read happens only after all five       *)
(* commands were sent and before the session is closed.                    *)
C6_PacedPrefixThenDrain ==
    /\ Len(Sent) <= Len(FixedSequence)
    /\ Sent = SubSeq(FixedSequence, 1, Len(Sent))
    /\ \A i, j \in At("send") :
         i < j => \E m \in At("sleep") : i < m /\ m < j
    /\ \A r \in At("recv") :
         /\ Cardinality({i \in At("send") : i < r}) = 5
         /\ \A c \in At("close") : r < c
    /\ Cardinality(At("recv")) <= 1

\* a complete Enforcer run
C6_Witness ==
    /\ pc = "done"
    /\ Len(Sent) = 5
    /\ At("recv") /= {}
    /\ At("close") /= {}

\* an Enforcer run cut short by a failed send after two commands
C6_PartialWitness ==
    /\ pc = "done"
    /\ Len(Sent) = 2
    /\ Printed("err_syslog")

(* C9: check_compliance emits exactly one of two reports: the compliant    *)
(* message if and only if no policy line is missing, otherwise the header  *)
(* followed by one prefixed entry per missing policy line in P's order; no *)
(* line of P that occurs in C is listed.  For C = [line A, line B] and     *)
(* P = [line A, line C] the report lists line C and not line A.            *)
C9_OneOfTwoReports ==
    pc = "cmp_done" =>
        LET C == running_config.lines
            P == guidelines.lines
            M == Missing(C, P)
        IN  /\ IF M = {}
               THEN stdout = << Line("compliant", <<>>) >>
               ELSE /\ Len(stdout) = 2
                    /\ stdout[1] = Line("noncompliant_header", <<>>)
                    /\ stdout[2].tag = "noncompliant_list"
                    /\ LET shown == splitlines(stdout[2].body)
                       IN  /\ Len(shown) = Cardinality(M)
                           /\ \A i \in M :
                                shown[Cardinality({m \in M : m <= i})]
                                    = <<"-", " ">> \o P[i]
                           /\ \A k \in 1..Len(shown), j \in 1..Len(C) :
                                shown[k] /= <<"-", " ">> \o C[j]
            /\ (C = << <<"A">>, <<"B">> >> /\ P = << <<"A">>, <<"C">> >>)
                 => stdout = << Line("noncompliant_header", <<>>),
                                Line("noncompliant_list", <<"-", " ", "C">>) >>

\* the end-to-end scenario: C = [line A, line B], P = [line A, line C]
C9_Witness ==
    /\ pc = "cmp_done"
    /\ running_config.lines = << <<"A">>, <<"B">> >>
    /\ guidelines.lines = << <<"A">>, <<"C">> >>
    /\ Len(stdout) = 2

\* two missing lines, one of them twice in the policy
C9_ListWitness ==
    /\ pc = "cmp_done"
    /\ guidelines.lines = << <<"C">>, <<"C">> >>
    /\ Len(stdout) = 2
    /\ stdout[2].body = <<"-", " ", "C", NL, "-", " ", "C">>

----------------------------------------------------------------------------
(* Statements the code does not satisfy. *)

(* C3: the Config Fetcher releases its session on every exit path: once    *)
(* get_running_config has returned, with a configuration or with None, no  *)
(* session it opened is still open, in particular not when the Enforcer    *)
(* opens its own.                                                          *)
C3_FetcherReleasesSession ==
    Returned("get_running_config") => fetch_ssh /= "open"

(* C7: every Enforcer run ends Closed, or Disconnected when no session was *)
(* established: configure_syslog never returns leaving an established      *)
(* session open.                                                           *)
C7_EnforcerEndsClosed ==
    Returned("configure_syslog") => enf_ssh \in {"closed", "disconnected"}

(* C8: a successfully produced but empty input counts as present and does  *)
(* not suppress the compliance report: with C = [] fetched and P = ["x"]   *)
(* loaded, check_compliance runs and the report lists "x".                 *)
C8_EmptyInputStillReported ==
    (PastCheck /\ running_config = Some(<<>>) /\ guidelines = Some(<< <<"x">> >>)) =>
        /\ Called("check_compliance")
        /\ non_compliant = << <<"x">> >>
        /\ \E k \in 1..Len(stdout) :
             stdout[k] = Line("noncompliant_list", <<"-", " ", "x">>)

(* C10: each Enforcer run prints exactly one status line: the success line *)
(* only when connect, shell activation, the five sends and the drain all   *)
(* returned, otherwise the error line; never both, whichever channel       *)
(* operation fails, close included.                                        *)
C10_OneStatusLine ==
    /\ Printed("syslog_ok") =>
         /\ enf_ssh /= "none"
         /\ shell /= "none"
         /\ Len(Sent) = 5
         /\ At("recv") /= {}
    /\ Returned("configure_syslog") => Count(stdout, IsStatus) = 1

====
